---- MODULE Spec2Model ----
(***************************************************************************)
(* Median-cut palette generation (package quantize) and the GIF frame      *)
(* emission that uses it (package gg).                                     *)
(*                                                                         *)
(* Spec        one process calling QuantizeMultiple directly or through    *)
(*             EncodeGIF (both variants of the repository), with the       *)
(*             process-wide bucket pool, and a second call on the same     *)
(*             inputs.                                                     *)
(* BucketSpec  quantizeSlice (bucketize + palettize) applied to arbitrary  *)
(*             dense buckets.                                              *)
(***************************************************************************)
EXTENDS Integers, Sequences, FiniteSets, TLC

\* ------------------------------------------------------------------ bounds
MaxFrames == 3
MaxArea == 2
MaxPixels == 4
MaxCap == 2
MaxBucket == 4
MaxWeight == 2
MaxCalls == 2
MaxCallers == 2
MaxPoolCalls == 3
MaxSessionFrames == 2
MaxPath == 2
MaxStack == 1
MaxCtxFrames == 1

\* ------------------------------------------------------- program constants
GifPaletteCap == 256
Mode == 0
Mean == 1

\* ------------------------------------------------------------------ colors
\* color.RGBA values (8 bit per channel, alpha-premultiplied).
RGBA(r, g, b, a) == [R |-> r, G |-> g, B |-> b, A |-> a]

Transparent == RGBA(0, 0, 0, 0)
Red == RGBA(255, 0, 0, 255)
Green == RGBA(0, 255, 0, 255)
Blue == RGBA(0, 0, 255, 255)
Cyan == RGBA(0, 255, 255, 255)

OpaqueColors == {Red, Green, Blue, Cyan}
PixelColors == OpaqueColors \cup {Transparent}

\* colorPriority{p, RGBA}; the zero value marks an empty slot.
colorPriority(p, c) == [p |-> p, c |-> c]
EmptySlot == colorPriority(0, Transparent)

\* ------------------------------------------------------------ sequence aids
RECURSIVE SumSeq(_)
SumSeq(s) == IF s = <<>> THEN 0 ELSE Head(s) + SumSeq(Tail(s))

RECURSIVE Flatten(_)
Flatten(ss) == IF ss = <<>> THEN <<>> ELSE Head(ss) \o Flatten(Tail(ss))

Range(s) == {s[k] : k \in 1..Len(s)}

Weights(b) == [k \in 1..Len(b) |-> b[k].p]
TotalWeight(b) == SumSeq(Weights(b))

Max2(a, b) == IF a > b THEN a ELSE b
Min2(a, b) == IF a < b THEN a ELSE b
Abs(a) == IF a < 0 THEN -a ELSE a

RECURSIVE BitOr(_, _)
BitOr(a, b) ==
    IF a = 0 THEN b
    ELSE IF b = 0 THEN a
    ELSE Max2(a % 2, b % 2) + 2 * BitOr(a \div 2, b \div 2)

\* ------------------------------------------------------------ bucket pool
\* What sync.Pool.Get can hand back: nil, or a value stored by Put.  A stored
\* value remembers its dynamic type ("colorBucket" or "*colorBucket") and the
\* capacity of the slice it holds or points to.
Nil == [type |-> "nil", cap |-> 0]
PoolValue(t, n) == [type |-> t, cap |-> n]

\* decayedCap without the second test.
decayedCapUnraised(maxCap, c) ==
    IF maxCap > c THEN (maxCap * 99) \div 100 ELSE maxCap

\* maxCap after the locked section of getBucket.
decayedCap(maxCap, c) ==
    LET m == IF maxCap > c THEN (maxCap * 99) \div 100 ELSE maxCap
    IN  IF m < c THEN c ELSE m

zeroed(c) == [k \in 1..c |-> EmptySlot]

\* getBucket(c) given the value Pool.Get returned and the shared estimate.
\* The type assertion val.(colorBucket) panics on any other dynamic type.
getBucket(c, val, maxCap) ==
    LET m == decayedCap(maxCap, c)
    IN  IF val = Nil
        THEN [outcome |-> "fresh", maxCap |-> m, cap |-> m, slice |-> zeroed(c)]
        ELSE IF val.type # "colorBucket"
        THEN [outcome |-> "panic", maxCap |-> m, cap |-> 0, slice |-> <<>>]
        ELSE IF val.cap < c
        THEN [outcome |-> "fresh", maxCap |-> m, cap |-> m, slice |-> zeroed(c)]
        ELSE [outcome |-> "reused", maxCap |-> m, cap |-> val.cap, slice |-> zeroed(c)]

\* The value the deferred bpool.Put(&bucket) stores.
putValue(n) == PoolValue("*colorBucket", n)

\* ------------------------------------------------------- histogram builder
tableSize(area) == area * 2

\* int(c.R)<<16 | int(c.G)<<8 | int(c.B)
hashIndex(c) == c.R * 65536 + c.G * 256 + c.B

\* probeHit without the comparison of colors.
probeHitEmptyOnly(table, slot, c) == table[slot + 1].p = 0

\* The probe test p.p == 0 || p.RGBA == c on slot index % size.
probeHit(table, slot, c) == table[slot + 1].p = 0 \/ table[slot + 1].c = c

\* accumulate with the old weight dropped: *p = colorPriority{priority, c}.
accumulateOverwrite(table, slot, priority, c) ==
    [table EXCEPT ![slot + 1] = colorPriority(priority, c)]

\* *p = colorPriority{p.p + priority, c}.  p.p is a uint32; it cannot wrap
\* below 2^32 pixels, far above MaxPixels.
accumulate(table, slot, priority, c) ==
    [table EXCEPT ![slot + 1] = colorPriority(@.p + priority, c)]

\* markTransparent without the assignment.
markTransparentSkipped(qq) == qq

\* What an alpha-0 pixel does to the quantizer.
markTransparent(qq) == [qq EXCEPT !.ReserveTransparent = TRUE]

\* Compaction of the sparse table (default branch: the images are *image.RGBA).
compact(table) == SelectSeq(table, LAMBDA e : e.p # 0)

\* One channel of color.YCbCrToRGB: a 16.16 fixed-point value, negative
\* values clamped to 0, values of 2^24 and more to 255.
clamp8(v) == IF v < 0 THEN 0 ELSE IF v >= 16777216 THEN 255 ELSE v \div 65536

\* color.YCbCrToRGB(p.R, p.G, p.B) on an entry whose R, G, B hold Y, Cb, Cr.
YCbCrToRGB(c) ==
    LET yy1 == c.R * 65793
        cb1 == c.G - 128
        cr1 == c.B - 128
    IN  RGBA(clamp8(yy1 + 91881 * cr1),
             clamp8(yy1 - 22554 * cb1 - 46802 * cr1),
             clamp8(yy1 + 116130 * cb1),
             c.A)

\* The entry appended for slot e (lines 183 and 189).
denseEntry(e, ycbcr) == IF ycbcr THEN colorPriority(e.p, YCbCrToRGB(e.c)) ELSE e

\* bucket = sparseBucket[:0] and the range loop (lines 177-192): buf is the
\* array both slices share, k the slot the loop reads next, n = len(bucket);
\* append writes slot n + 1 of that array.
RECURSIVE compactInPlace(_, _, _, _)
compactInPlace(buf, k, n, ycbcr) ==
    IF k > Len(buf) THEN SubSeq(buf, 1, n)
    ELSE IF buf[k].p # 0
    THEN compactInPlace([buf EXCEPT ![n + 1] = denseEntry(buf[k], ycbcr)], k + 1, n + 1, ycbcr)
    ELSE compactInPlace(buf, k + 1, n, ycbcr)

\* -------------------------------------------------------------- median cut
Channel(c, ch) == IF ch = "R" THEN c.R ELSE IF ch = "G" THEN c.G ELSE c.B

Spread(b, ch) ==
    LET vals == {Channel(b[k].c, ch) : k \in 1..Len(b)}
    IN  (CHOOSE v \in vals : \A w \in vals : v >= w)
        - (CHOOSE v \in vals : \A w \in vals : v <= w)

\* First of R, G, B with the greatest spread.
WidestChannel(b) ==
    IF Spread(b, "R") >= Spread(b, "G") /\ Spread(b, "R") >= Spread(b, "B") THEN "R"
    ELSE IF Spread(b, "G") >= Spread(b, "B") THEN "G"
    ELSE "B"

RECURSIVE InsertSorted(_, _, _)
InsertSorted(s, e, ch) ==
    IF s = <<>> THEN <<e>>
    ELSE IF Channel(e.c, ch) < Channel(Head(s).c, ch) THEN <<e>> \o s
    ELSE <<Head(s)>> \o InsertSorted(Tail(s), e, ch)

\* Stable sort by one channel.
RECURSIVE SortByChannel(_, _)
SortByChannel(b, ch) ==
    IF b = <<>> THEN <<>>
    ELSE InsertSorted(SortByChannel(SubSeq(b, 1, Len(b) - 1), ch), b[Len(b)], ch)

Imbalance(b, k) ==
    Abs(TotalWeight(SubSeq(b, 1, k)) - TotalWeight(SubSeq(b, k + 1, Len(b))))

\* First cut position whose halves are closest in weight.
CutPosition(b) ==
    CHOOSE k \in 1..(Len(b) - 1) :
        /\ \A j \in 1..(Len(b) - 1) : Imbalance(b, k) <= Imbalance(b, j)
        /\ \A j \in 1..(k - 1) : Imbalance(b, j) > Imbalance(b, k)

\* colorBucket.partition(): <<left, right>>.
partition(b) ==
    LET s == SortByChannel(b, WidestChannel(b))
        k == CutPosition(s)
    IN  <<SubSeq(s, 1, k), SubSeq(s, k + 1, Len(s))>>

\* colorBucket.mean(): weighted average per channel, rounded to nearest.
\* meanChannel giving every sample the same weight.
meanChannelUnweighted(b, ch) ==
    LET t == SumSeq([k \in 1..Len(b) |-> Channel(b[k].c, ch)])
    IN  (2 * t + Len(b)) \div (2 * Len(b))

\* meanChannel dividing the weighted sum by the number of samples.
meanChannelPerSample(b, ch) ==
    LET t == SumSeq([k \in 1..Len(b) |-> b[k].p * Channel(b[k].c, ch)])
    IN  (2 * t + Len(b)) \div (2 * Len(b))

meanChannel(b, ch) ==
    LET w == TotalWeight(b)
        t == SumSeq([k \in 1..Len(b) |-> b[k].p * Channel(b[k].c, ch)])
    IN  (2 * t + w) \div (2 * w)

mean(b) == RGBA(meanChannel(b, "R"), meanChannel(b, "G"), meanChannel(b, "B"), 255)

\* bucketizeEntry without the test for an empty bucket.
bucketizeEntryNonEmptyOnly(colors, num) ==
    IF num = 0 THEN "nil"
    ELSE IF num * 2 < 1 THEN "panic"
    ELSE "loop"

\* bucketize up to the loop: "nil" result, panic of make, or the initial queue.
bucketizeEntry(colors, num) ==
    IF Len(colors) = 0 \/ num = 0 THEN "nil"
    ELSE IF num * 2 < 1 THEN "panic"
    ELSE "loop"

\* bucketizeMore with <= for the capacity test.
bucketizeMoreOffByOne(bs, colors, num) == Len(bs) <= num /\ Len(bs) < Len(colors)

\* bucketizeMore without the comparison with len(colors).
bucketizeMoreUpToNum(bs, colors, num) == Len(bs) < num

\* The loop condition of bucketize.
bucketizeMore(bs, colors, num) == Len(bs) < num /\ Len(bs) < Len(colors)

\* bucketizeIter whose 2-sample split appends bucket[:1] twice.
bucketizeIterDuplicating(bs) ==
    LET b == Head(bs)
        rest == Tail(bs)
    IN  IF Len(b) < 2 THEN Append(rest, b)
        ELSE IF Len(b) = 2 THEN rest \o <<SubSeq(b, 1, 1), SubSeq(b, 1, 1)>>
        ELSE rest \o partition(b)

\* bucketizeIter without the singleton case: a 1-sample bucket is split too.
bucketizeIterSplittingSingletons(bs) ==
    LET b == Head(bs)
        rest == Tail(bs)
    IN  IF Len(b) <= 2 THEN rest \o <<SubSeq(b, 1, 1), SubSeq(b, 2, Len(b))>>
        ELSE rest \o partition(b)

\* One iteration of the loop of bucketize.
bucketizeIter(bs) ==
    LET b == Head(bs)
        rest == Tail(bs)
    IN  IF Len(b) < 2 THEN Append(rest, b)
        ELSE IF Len(b) = 2 THEN rest \o <<SubSeq(b, 1, 1), SubSeq(b, 2, 2)>>
        ELSE rest \o partition(b)

\* The Mode case of palettize: first sample with the highest weight.
RECURSIVE modeBest(_, _)
RECURSIVE modeBestLast(_, _)
\* modeBest taking a later sample of equal weight.
modeBestLast(b, best) ==
    IF b = <<>> THEN best
    ELSE modeBestLast(Tail(b), IF Head(b).p >= best.p THEN Head(b) ELSE best)

modeBest(b, best) ==
    IF b = <<>> THEN best
    ELSE modeBest(Tail(b), IF Head(b).p > best.p THEN Head(b) ELSE best)

representative(b, agg) == IF agg = Mean THEN mean(b) ELSE modeBest(b, EmptySlot).c

palettize(pal, bs, agg) == pal \o [k \in 1..Len(bs) |-> representative(bs[k], agg)]

\* numColorsOf without the slot kept for transparency.
numColorsNoReserve(capacity, pal, qq) == capacity - Len(pal)

\* numColors of quantizeSlice.
numColorsOf(capacity, pal, qq) ==
    (capacity - Len(pal)) - (IF qq.ReserveTransparent THEN 1 ELSE 0)

\* ---------------------------------------------------------- frame emission
\* Color.RGBA() of a color.RGBA: 16-bit components.
wide(v) == v * 257

\* image/color compares colors by the sum over the four channels of
\* sqDiff(x, y) = ((x - y) * (x - y)) >> 2 on the 16-bit components.  With
\* x - y = 257 * d (d the 8-bit difference) one term is (66049 * d * d - r) / 4,
\* r = 1 for odd d and 0 for even d, and never wraps (65535^2 < 2^32).  The sum
\* is therefore ordered as 8 * (sum of d * d) - (number of odd d), which is the
\* value kept here.
sqDiff8(x, y) == 8 * ((x - y) * (x - y)) - ((x - y) % 2)

colorDistance(a, b) ==
    sqDiff8(a.R, b.R) + sqDiff8(a.G, b.G) + sqDiff8(a.B, b.B) + sqDiff8(a.A, b.A)

\* color.Palette.Index: 0-based index of the first closest entry, 0 if empty.
paletteIndex(pal, c) ==
    IF pal = <<>> THEN 0
    ELSE (CHOOSE k \in 1..Len(pal) :
            /\ \A j \in 1..Len(pal) : colorDistance(c, pal[k]) <= colorDistance(c, pal[j])
            /\ \A j \in 1..(k - 1) : colorDistance(c, pal[j]) > colorDistance(c, pal[k])) - 1

\* cacheKey of the red channel alone.
cacheKeyRedOnly(c) == (wide(c.R) \div 256) * 65536

\* cid := (cr>>8)<<16 | cg | (cb >> 8)
cacheKey(c) ==
    BitOr(BitOr((wide(c.R) \div 256) * 65536, wide(c.G)), wide(c.B) \div 256)

\* The index written for an alpha-0 pixel when a transparent slot is reserved.
transparentIndex(variant, tid) ==
    IF variant \in {"EncodeGIF", "SaveGIF"} THEN tid ELSE 0

\* ------------------------------------------------------------------- state
VARIABLES
    input,          \* the arguments of the call: kind, ms, cap, p, q
    callNo,         \* how many calls this process has started
    prev,           \* outcome of the previous call on the same arguments
    pool,           \* bpool.Pool: the values stored by Put
    maxCap,         \* bpool.maxCap
    pc,             \* position of the call
    p,              \* the palette being built
    q,              \* the MedianCutQuantizer
    mi, xi,         \* frame and pixel (row-major) the scan or emission is at
    index, i,       \* probe loop: index and i, kept modulo size
    sparseBucket,   \* the table handed out by getBucket
    bucketCap,      \* capacity of the buffer behind bucket
    bucket,         \* the dense bucket (colors of quantizeSlice)
    numColors,      \* num of bucketize
    buckets,        \* the work queue of bucketize
    transId,        \* EncodeGIF: index of the transparent entry
    animId,         \* EncodeGIF: cache key -> palette index
    pix,            \* EncodeGIF: dst.Pix of every frame, row-major
    out,            \* SaveGIF/EncodeGIF: the file, the writer and the error
    searches,       \* history: per cache key, the palette searches made
    conc,           \* concurrent callers of QuantizeMultiple (PoolSpec)
    sess,           \* EncodeGIF sessions running side by side (SessionSpec)
    ctx             \* a drawing Context and the snapshots taken of it (ContextSpec)

vars == <<input, callNo, prev, pool, maxCap, pc, p, q, mi, xi, index, i,
          sparseBucket, bucketCap, bucket, numColors, buckets, transId, animId, pix,
          out, searches, conc, sess, ctx>>

kind == input.kind
ms == input.ms
capP == input.cap

\* The dynamic type of ms[0]: *image.YCbCr where the caller says so, else the
\* *image.RGBA of Context frames.
isYCbCr == "imageType" \in DOMAIN input /\ input.imageType = "YCbCr"

NoFrames == <<>>
NoCache == [k \in {} |-> 0]
NoPrev == [pc |-> "none", p |-> <<>>, pix |-> <<>>]
NoOutput == [file |-> "none", written |-> FALSE, err |-> "nil"]
NoSearches == [k \in {} |-> 0]
NoConc == <<>>
NoSess == <<>>
NoCtx == <<>>

Quantizers == [Aggregation : {Mode, Mean}, ReserveTransparent : BOOLEAN]

\* Frame lists of identical bounds; a frame is its pixels in row-major order.
Shapes == {sh \in (1..MaxFrames) \X (1..MaxArea) : sh[1] * sh[2] <= MaxPixels}
Images == {NoFrames} \cup UNION {[1..sh[1] -> [1..sh[2] -> PixelColors]] : sh \in Shapes}

\* Palettes a caller hands to QuantizeMultiple: empty, or with the
\* transparent slot reserved first.
CallerPalettes(capacity) ==
    {<<>>} \cup (IF capacity >= 1 THEN {<<Transparent>>} ELSE {})

QuantizeInputs ==
    UNION {{[kind |-> "QuantizeMultiple", ms |-> m, cap |-> c, p |-> p0, q |-> q0] :
                m \in Images, p0 \in CallerPalettes(c), q0 \in Quantizers} :
           c \in 0..MaxCap}

EncodeInputs ==
    {[kind |-> k, ms |-> m, cap |-> GifPaletteCap, p |-> <<>>,
      q |-> [Aggregation |-> Mode, ReserveTransparent |-> FALSE]] :
        k \in {"EncodeGIF", "EncodeGIFfps"}, m \in Images}

Inputs == QuantizeInputs \cup EncodeInputs

area == IF ms = NoFrames THEN 0 ELSE Len(ms[1])
size == tableSize(area)

\* The locals of a call at its entry.
Entry(in) ==
    /\ pc = (IF in.kind = "QuantizeMultiple" THEN "QuantizeMultiple"
             ELSE IF in.kind \in {"SaveGIF", "SaveGIFfps"} THEN "SaveGIF"
             ELSE "EncodeGIF")
    /\ p = in.p
    /\ q = in.q
    /\ mi = 1 /\ xi = 1 /\ index = 0 /\ i = 0
    /\ sparseBucket = <<>> /\ bucketCap = 0 /\ bucket = <<>>
    /\ numColors = 0 /\ buckets = <<>>
    /\ transId = 0 /\ animId = NoCache /\ pix = <<>>
    /\ out = NoOutput /\ searches = NoSearches

Init ==
    /\ input \in Inputs
    /\ callNo = 1
    /\ prev = NoPrev
    /\ pool = <<>>
    /\ maxCap = 0
    /\ conc = NoConc /\ sess = NoSess /\ ctx = NoCtx
    /\ Entry(input)

\* ------------------------------------------------------------ EncodeGIF (1)
SaveKinds == {"SaveGIF", "SaveGIFfps"}

\* noFrames without the test.
noFramesUnchecked(im) == FALSE

\* im == nil || len(im) == 0
noFrames(im) == Len(im) = 0

\* EncodeGIF up to the call of QuantizeMultiple: the empty-list check and the
\* construction of the quantizer and palette (done by Entry).
EncodeGIFEnter ==
    /\ pc = "EncodeGIF"
    /\ IF noFrames(ms)
       THEN /\ pc' = (IF kind \in SaveKinds THEN "close" ELSE "error")
            /\ out' = [out EXCEPT !.err = "no frames provided"]
       ELSE /\ pc' = "QuantizeMultiple"
            /\ UNCHANGED out
    /\ UNCHANGED <<ctx, sess, conc, searches, input, callNo, prev, pool, maxCap, p, q, mi, xi, index, i,
                   sparseBucket, bucketCap, bucket, numColors, buckets,
                   transId, animId, pix>>

\* ----------------------------------------------------- buildBucketMultiple
\* Lines 139-146: the empty list, or getBucket(size) with whatever Pool.Get
\* returns (nil at any time, or one of the stored values).
BuildBucketStart ==
    /\ pc = "QuantizeMultiple"
    /\ IF Len(ms) < 1
       THEN /\ bucket' = <<>>
            /\ bucketCap' = 0
            /\ pc' = "quantizeSlice"
            /\ UNCHANGED <<pool, maxCap, sparseBucket, mi, xi>>
       ELSE \E k \in 0..Len(pool) :
            LET val == IF k = 0 THEN Nil ELSE pool[k]
                r == getBucket(size, val, maxCap)
            IN  /\ maxCap' = r.maxCap
                /\ pool' = IF k = 0 THEN pool
                           ELSE SubSeq(pool, 1, k - 1) \o SubSeq(pool, k + 1, Len(pool))
                /\ sparseBucket' = r.slice
                /\ bucketCap' = r.cap
                /\ pc' = IF r.outcome = "panic" THEN "panic" ELSE "scan"
                /\ mi' = 1 /\ xi' = 1
                /\ UNCHANGED bucket
    /\ UNCHANGED <<ctx, sess, conc, out, searches, input, callNo, prev, p, q, index, i, numColors, buckets,
                   transId, animId, pix>>

\* Position after pixel (m, x) of frames of the given area.
nextFrame(m, x, a) == IF x < a THEN m ELSE m + 1
nextPixel(m, x, a) == IF x < a THEN x + 1 ELSE 1

\* priority of a pixel: 1 where Weighting is nil, else q.Weighting(m, x, y)
\* (the weightings drawn look at the position only).
priorityAt(m, x) == IF "Weighting" \in DOMAIN q THEN q.Weighting[x] ELSE 1

\* One pixel of the scan up to the probe loop (lines 151-163).
ScanPixel ==
    /\ pc = "scan"
    /\ mi <= Len(ms)
    /\ IF xi > Len(ms[mi])
       THEN \* (x, y) lies outside this frame: i.Pix[ci] of an *image.RGBA is
            \* out of range, At(x, y) of another image type is the zero color
            \/ /\ pc' = "panic"
               /\ UNCHANGED <<q, mi, xi, index, i>>
            \/ /\ q' = (IF ~q.ReserveTransparent THEN markTransparent(q) ELSE q)
               /\ mi' = nextFrame(mi, xi, area)
               /\ xi' = nextPixel(mi, xi, area)
               /\ UNCHANGED <<pc, index, i>>
       ELSE
       LET c == ms[mi][xi]
       IN  IF c.A = 0
           THEN /\ q' = (IF ~q.ReserveTransparent THEN markTransparent(q) ELSE q)
                /\ mi' = nextFrame(mi, xi, area)
                /\ xi' = nextPixel(mi, xi, area)
                /\ UNCHANGED <<pc, index, i>>
           ELSE IF priorityAt(mi, xi) # 0
           THEN /\ index' = hashIndex(c) % size
                /\ i' = 1 % size
                /\ pc' = "probe"
                /\ UNCHANGED <<q, mi, xi>>
           ELSE /\ mi' = nextFrame(mi, xi, area)
                /\ xi' = nextPixel(mi, xi, area)
                /\ UNCHANGED <<q, pc, index, i>>
    /\ UNCHANGED <<ctx, sess, conc, out, searches, input, callNo, prev, pool, maxCap, p, sparseBucket, bucketCap,
                   bucket, numColors, buckets, transId, animId, pix>>

\* One iteration of the probe loop (lines 164-171).  Only index % size is
\* read and index grows by 1 + i, so index and i are kept modulo size; the
\* 64-bit index itself cannot wrap before some 2^32 iterations.
ProbeStep ==
    /\ pc = "probe"
    /\ LET c == ms[mi][xi]
           slot == index % size
       IN  IF probeHit(sparseBucket, slot, c)
           THEN /\ sparseBucket' = accumulate(sparseBucket, slot, priorityAt(mi, xi), c)
                /\ mi' = nextFrame(mi, xi, area)
                /\ xi' = nextPixel(mi, xi, area)
                /\ pc' = "scan"
                /\ UNCHANGED <<index, i>>
           ELSE /\ index' = (index + 1 + i) % size
                /\ i' = (i + 1) % size
                /\ UNCHANGED <<sparseBucket, mi, xi, pc>>
    /\ UNCHANGED <<ctx, sess, conc, out, searches, input, callNo, prev, pool, maxCap, p, q, bucketCap, bucket,
                   numColors, buckets, transId, animId, pix>>

\* Lines 177-193: compaction into the dense bucket, return to QuantizeMultiple.
Compact ==
    /\ pc = "scan"
    /\ mi > Len(ms)
    /\ bucket' = compactInPlace(sparseBucket, 1, 0, isYCbCr)
    /\ pc' = "quantizeSlice"
    /\ UNCHANGED <<ctx, sess, conc, out, searches, input, callNo, prev, pool, maxCap, p, q, mi, xi, index, i,
                   sparseBucket, bucketCap, numColors, buckets, transId, animId, pix>>

\* ------------------------------------------------------------ quantizeSlice
\* Lines 108-113 and bucketize up to its loop (lines 63-68).
QuantizeSlice ==
    /\ pc = "quantizeSlice"
    /\ LET num == numColorsOf(capP, p, q)
           e == bucketizeEntry(bucket, num)
       IN  /\ numColors' = num
           /\ buckets' = IF e = "loop" THEN <<bucket>> ELSE <<>>
           /\ pc' = IF e = "loop" THEN "bucketize"
                    ELSE IF e = "nil" THEN "palettize"
                    ELSE "panicking"
    /\ UNCHANGED <<ctx, sess, conc, out, searches, input, callNo, prev, pool, maxCap, p, q, mi, xi, index, i,
                   sparseBucket, bucketCap, bucket, transId, animId, pix>>

\* One iteration of the split loop (lines 70-82).
BucketizeStep ==
    /\ pc = "bucketize"
    /\ bucketizeMore(buckets, bucket, numColors)
    /\ buckets' = bucketizeIter(buckets)
    /\ UNCHANGED <<ctx, sess, conc, out, searches, input, callNo, prev, pool, maxCap, pc, p, q, mi, xi, index, i,
                   sparseBucket, bucketCap, bucket, numColors, transId, animId, pix>>

\* The loop condition fails: bucketize returns (line 83).
BucketizeDone ==
    /\ pc = "bucketize"
    /\ ~bucketizeMore(buckets, bucket, numColors)
    /\ pc' = "palettize"
    /\ UNCHANGED <<ctx, sess, conc, out, searches, input, callNo, prev, pool, maxCap, p, q, mi, xi, index, i,
                   sparseBucket, bucketCap, bucket, numColors, buckets,
                   transId, animId, pix>>

\* palettize and the return of quantizeSlice (lines 114-115).
Palettize ==
    /\ pc = "palettize"
    /\ p' = palettize(p, buckets, q.Aggregation)
    /\ pc' = "palettized"
    /\ UNCHANGED <<ctx, sess, conc, out, searches, input, callNo, prev, pool, maxCap, q, mi, xi, index, i,
                   sparseBucket, bucketCap, bucket, numColors, buckets,
                   transId, animId, pix>>

\* QuantizeMultiple returns or unwinds: the deferred bpool.Put(&bucket) runs.
Return ==
    /\ pc \in {"palettized", "panicking"}
    /\ kind # "quantizeSlice"
    /\ pool' = Append(pool, putValue(bucketCap))
    /\ pc' = IF pc = "panicking" THEN "panic"
             ELSE IF kind = "QuantizeMultiple" THEN "done"
             ELSE "append"
    /\ UNCHANGED <<ctx, sess, conc, out, searches, input, callNo, prev, maxCap, p, q, mi, xi, index, i,
                   sparseBucket, bucketCap, bucket, numColors, buckets,
                   transId, animId, pix>>

\* ------------------------------------------------------------ EncodeGIF (2)
\* The transparent entry and the empty cache (lines 1326-1332, 1475-1486).
AppendTransparent ==
    /\ pc = "append"
    /\ IF q.ReserveTransparent
       THEN /\ transId' = (IF kind \in {"EncodeGIF", "SaveGIF"} THEN Len(p) % 256
                           ELSE transId)
            /\ p' = Append(p, Transparent)
       ELSE UNCHANGED <<transId, p>>
    /\ animId' = NoCache
    /\ pix' = [k \in 1..Len(ms) |-> <<>>]
    /\ mi' = 1 /\ xi' = 1
    /\ pc' = "emit"
    /\ UNCHANGED <<ctx, sess, conc, out, searches, input, callNo, prev, pool, maxCap, q, index, i, sparseBucket,
                   bucketCap, bucket, numColors, buckets>>

\* cacheStore without the assignment.
cacheStoreSkipped(cache, cid, val) == cache

\* animId[cid] = val
cacheStore(cache, cid, val) == (cid :> val) @@ cache

\* History of p.Index(c) calls: how often a key was searched, and the index
\* the first search gave.
searched(h, cid, val) ==
    IF cid \in DOMAIN h THEN [h EXCEPT ![cid].n = @ + 1]
    ELSE (cid :> [n |-> 1, val |-> val]) @@ h

\* One pixel of one frame (lines 1350-1363, 1494-1506).
EmitPixel ==
    /\ pc = "emit"
    /\ mi <= Len(ms)
    /\ LET c == ms[mi][xi]
           cid == cacheKey(c)
       IN  IF q.ReserveTransparent /\ wide(c.A) = 0
           THEN /\ pix' = [pix EXCEPT ![mi] = Append(@, transparentIndex(kind, transId))]
                /\ UNCHANGED <<animId, searches>>
           ELSE IF cid \in DOMAIN animId
           THEN /\ pix' = [pix EXCEPT ![mi] = Append(@, animId[cid])]
                /\ UNCHANGED <<animId, searches>>
           ELSE LET val == paletteIndex(p, c) % 256
                IN  /\ pix' = [pix EXCEPT ![mi] = Append(@, val)]
                    /\ animId' = cacheStore(animId, cid, val)
                    /\ searches' = searched(searches, cid, val)
    /\ mi' = nextFrame(mi, xi, Len(ms[mi]))
    /\ xi' = nextPixel(mi, xi, Len(ms[mi]))
    /\ UNCHANGED <<ctx, sess, conc, out, input, callNo, prev, pool, maxCap, pc, p, q, index, i,
                   sparseBucket, bucketCap, bucket, numColors, buckets, transId>>

\* All frames are emitted: gif.EncodeAll takes over.
EncodeAll ==
    /\ pc = "emit"
    /\ mi > Len(ms)
    /\ IF \A k \in 1..Len(ms) : Len(ms[k]) <= Len(ms[1])
       THEN /\ pc' = (IF kind \in SaveKinds THEN "close" ELSE "done")
            /\ out' = [out EXCEPT !.written = TRUE]
       ELSE \* a frame larger than the logical screen of im[0]
            /\ pc' = (IF kind \in SaveKinds THEN "close" ELSE "error")
            /\ out' = [out EXCEPT !.written = TRUE,
                                  !.err = "gif: image block is out of bounds"]
    /\ UNCHANGED <<ctx, sess, conc, searches, input, callNo, prev, pool, maxCap, p, q, mi, xi, index, i,
                   sparseBucket, bucketCap, bucket, numColors, buckets,
                   transId, animId, pix>>

\* ------------------------------------------------------------ the process
\* The caller repeats the call on identical arguments (fresh palette and
\* quantizer); the pool and its estimate are what the first call left.
Rerun ==
    /\ pc \in {"done", "error"}
    /\ callNo < MaxCalls
    /\ callNo' = callNo + 1
    /\ prev' = [pc |-> pc, p |-> p, pix |-> pix]
    /\ pc' = (IF kind = "QuantizeMultiple" THEN "QuantizeMultiple"
              ELSE IF kind \in SaveKinds THEN "SaveGIF"
              ELSE "EncodeGIF")
    /\ p' = input.p
    /\ q' = input.q
    /\ mi' = 1 /\ xi' = 1 /\ index' = 0 /\ i' = 0
    /\ sparseBucket' = <<>> /\ bucketCap' = 0 /\ bucket' = <<>>
    /\ numColors' = 0 /\ buckets' = <<>>
    /\ transId' = 0 /\ animId' = NoCache /\ pix' = <<>>
    /\ out' = NoOutput /\ searches' = NoSearches
    /\ UNCHANGED <<ctx, sess, conc, input, pool, maxCap>>

Next ==
    \/ EncodeGIFEnter
    \/ BuildBucketStart
    \/ ScanPixel
    \/ ProbeStep
    \/ Compact
    \/ QuantizeSlice
    \/ BucketizeStep
    \/ BucketizeDone
    \/ Palettize
    \/ Return
    \/ AppendTransparent
    \/ EmitPixel
    \/ EncodeAll
    \/ Rerun

Spec == Init /\ [][Next]_vars

\* ----------------------------------------------------------------- SaveGIF
\* SaveGIF up to its call of EncodeGIF (lines 1298-1308, 1445-1455);
\* os.Create may fail.
SaveGIFEnter ==
    /\ pc = "SaveGIF"
    /\ IF noFrames(ms)
       THEN /\ out' = [out EXCEPT !.err = "no frames provided"]
            /\ pc' = "error"
       ELSE \/ /\ out' = [out EXCEPT !.file = "created"]
               /\ pc' = "EncodeGIF"
            \/ /\ out' = [out EXCEPT !.err = "create"]
               /\ pc' = "error"
    /\ UNCHANGED <<ctx, sess, conc, searches, input, callNo, prev, pool, maxCap, p, q, mi, xi, index, i,
                   sparseBucket, bucketCap, bucket, numColors, buckets,
                   transId, animId, pix>>

\* file.Close() and the return (lines 1310-1314, 1457-1461).
SaveGIFClose ==
    /\ pc = "close"
    /\ \/ /\ out' = [out EXCEPT !.file = "closed"]
          /\ pc' = (IF out.err = "nil" THEN "done" ELSE "error")
       \/ /\ out' = [out EXCEPT !.file = "closed", !.err = "close"]
          /\ pc' = "error"
    /\ UNCHANGED <<ctx, sess, conc, searches, input, callNo, prev, pool, maxCap, p, q, mi, xi, index, i,
                   sparseBucket, bucketCap, bucket, numColors, buckets,
                   transId, animId, pix>>

\* Two frames whose bounds differ.
MismatchedImages ==
    UNION {[1..2 -> UNION {[1..a -> PixelColors] : a \in {a1, a2}}] :
              a1 \in 1..MaxArea, a2 \in 1..MaxArea} \ Images

mismatched(m) == \E k \in 1..Len(m) : Len(m[k]) # Len(m[1])

\* Three 2x2 frames, each of one color.
solid(c) == [k \in 1..4 |-> c]
SolidFrames == <<solid(Red), solid(Green), solid(Blue)>>

AllGifKinds == {"SaveGIF", "SaveGIFfps", "EncodeGIF", "EncodeGIFfps"}

GifInputs ==
    {[kind |-> k, ms |-> m, cap |-> GifPaletteCap, p |-> <<>>,
      q |-> [Aggregation |-> Mode, ReserveTransparent |-> FALSE]] :
        k \in AllGifKinds,
        m \in Images \cup {SolidFrames}
               \cup {mm \in MismatchedImages : Len(mm[1]) + Len(mm[2]) < MaxPixels}}

GifInit ==
    /\ input \in GifInputs
    /\ callNo = 1
    /\ prev = NoPrev
    /\ pool = <<>>
    /\ maxCap = 0
    /\ conc = NoConc /\ sess = NoSess /\ ctx = NoCtx
    /\ Entry(input)

GifNext ==
    \/ SaveGIFEnter
    \/ SaveGIFClose
    \/ Next

GifSpec == GifInit /\ [][GifNext]_vars

\* ------------------------------------------------- quantizeSlice on its own
\* Dense buckets as buildBucketMultiple returns them: distinct colors, every
\* weight at least 1.
Samples == {colorPriority(w, c) : w \in 1..MaxWeight, c \in OpaqueColors}

DenseBuckets ==
    UNION {{b \in [1..n -> Samples] :
                \A j, k \in 1..n : j # k => b[j].c # b[k].c} : n \in 0..MaxBucket}

\* Buckets of two samples of weights 9 and 1, in either order.
MixColors == OpaqueColors \cup {RGBA(200, 100, 50, 255), RGBA(10, 20, 30, 255)}

WeightedPairs ==
    UNION {IF a = b THEN {}
           ELSE {<<colorPriority(9, a), colorPriority(1, b)>>,
                 <<colorPriority(1, b), colorPriority(9, a)>>} :
              a \in MixColors, b \in MixColors}

SliceInputs ==
    {[kind |-> "quantizeSlice", ms |-> NoFrames, cap |-> c, p |-> <<>>, q |-> q0] :
        c \in 0..(MaxBucket + 1), q0 \in Quantizers}

BucketInit ==
    /\ input \in SliceInputs
    /\ callNo = 1
    /\ prev = NoPrev
    /\ pool = <<>>
    /\ maxCap = 0
    /\ pc = "quantizeSlice"
    /\ p = input.p
    /\ q = input.q
    /\ mi = 1 /\ xi = 1 /\ index = 0 /\ i = 0
    /\ sparseBucket = <<>> /\ bucketCap = 0
    /\ bucket \in DenseBuckets \cup WeightedPairs
    /\ numColors = 0 /\ buckets = <<>>
    /\ transId = 0 /\ animId = NoCache /\ pix = <<>>
    /\ out = NoOutput /\ searches = NoSearches /\ conc = NoConc /\ sess = NoSess /\ ctx = NoCtx

BucketNext ==
    \/ QuantizeSlice
    \/ BucketizeStep
    \/ BucketizeDone
    \/ Palettize

BucketSpec == BucketInit /\ [][BucketNext]_vars

\* ------------------------------------------- concurrent QuantizeMultiple
\* Goroutines calling QuantizeMultiple on the one package-level bpool. Every
\* backing array has an identity; conc.m is the holder of bpool.m (0: free).
Callers == 1..MaxCallers

IdleCaller == [pc |-> "idle", c |-> 0, mc |-> 0, val |-> Nil,
               buf |-> 0, cap |-> 0]

caller(g) == conc.g[g]

\* The pooled pointer to a bucket whose backing array is id.
pooled(v, id) == [type |-> v.type, cap |-> v.cap, id |-> id]

\* deferredPut running bpool.Put at the defer statement.
deferredPutEager(pl, v) == Append(pl, v)

\* defer bpool.Put(&bucket): the call is registered, the pool is not touched
\* until QuantizeMultiple returns.
deferredPut(pl, v) == pl

PoolInputs == {[kind |-> "concurrent", ms |-> NoFrames, cap |-> 0, p |-> <<>>,
                q |-> [Aggregation |-> Mode, ReserveTransparent |-> FALSE]]}

PoolInit ==
    /\ input \in PoolInputs
    /\ callNo = 1
    /\ prev = NoPrev
    /\ pool = <<>>
    /\ maxCap = 0
    /\ conc = [m |-> 0, next |-> 1, calls |-> 0, g |-> [g \in Callers |-> IdleCaller]]
    /\ sess = NoSess /\ ctx = NoCtx
    /\ pc = "concurrent"
    /\ p = <<>> /\ q = input.q
    /\ mi = 1 /\ xi = 1 /\ index = 0 /\ i = 1
    /\ sparseBucket = <<>> /\ bucketCap = 0 /\ bucket = <<>>
    /\ numColors = 0 /\ buckets = <<>>
    /\ transId = 0 /\ animId = NoCache /\ pix = <<>>
    /\ out = NoOutput /\ searches = NoSearches

PoolFrame == <<input, callNo, prev, pc, p, q, mi, xi, index, i, sparseBucket,
               bucketCap, bucket, numColors, buckets, transId, animId, pix,
               out, searches, sess, ctx>>

\* QuantizeMultiple is entered with images of a pixels each (0: no image,
\* buildBucketMultiple returns colorBucket{} at once, lines 140-142).
PoolCall(g) ==
    /\ caller(g).pc = "idle"
    /\ conc.calls < MaxPoolCalls
    /\ \E a \in {0, 1, MaxArea} :
         conc' = [conc EXCEPT !.calls = @ + 1,
                              !.g[g] = [@ EXCEPT !.pc = IF a = 0 THEN "built" ELSE "Lock",
                                                 !.c = 2 * a]]
    /\ UNCHANGED <<pool, maxCap>>
    /\ UNCHANGED PoolFrame

\* p.m.Lock() (line 20)
PoolLock(g) ==
    /\ caller(g).pc = "Lock"
    /\ conc.m = 0
    /\ conc' = [conc EXCEPT !.m = g, !.g[g].pc = "locked"]
    /\ UNCHANGED <<pool, maxCap>>
    /\ UNCHANGED PoolFrame

\* lines 21-27
PoolUpdate(g) ==
    /\ caller(g).pc = "locked"
    /\ maxCap' = decayedCap(maxCap, caller(g).c)
    /\ conc' = [conc EXCEPT !.g[g].mc = maxCap', !.g[g].pc = "Unlock"]
    /\ UNCHANGED pool
    /\ UNCHANGED PoolFrame

\* p.m.Unlock() (line 28)
PoolUnlock(g) ==
    /\ caller(g).pc = "Unlock"
    /\ conc' = [conc EXCEPT !.m = 0, !.g[g].pc = "Get"]
    /\ UNCHANGED <<pool, maxCap>>
    /\ UNCHANGED PoolFrame

\* val := p.Pool.Get() (line 29): nil, or a value taken out of the pool.
PoolGet(g) ==
    /\ caller(g).pc = "Get"
    /\ \E k \in 0..Len(pool) :
         /\ conc' = [conc EXCEPT !.g[g].val = (IF k = 0 THEN Nil ELSE pool[k]),
                                 !.g[g].pc = "got"]
         /\ pool' = IF k = 0 THEN pool
                    ELSE SubSeq(pool, 1, k - 1) \o SubSeq(pool, k + 1, Len(pool))
    /\ UNCHANGED maxCap
    /\ UNCHANGED PoolFrame

\* lines 30-38: a fresh array, the drawn one, or the failed type assertion.
PoolAlloc(g) ==
    /\ caller(g).pc = "got"
    /\ LET me == caller(g)
           r == getBucket(me.c, me.val, me.mc)
       IN  conc' =
             IF r.outcome = "panic"
             THEN [conc EXCEPT !.g[g].pc = "panic"]
             ELSE IF r.outcome = "fresh"
             THEN [conc EXCEPT !.next = @ + 1,
                               !.g[g] = [@ EXCEPT !.pc = "built", !.buf = conc.next,
                                                  !.cap = me.mc, !.val = Nil]]
             ELSE [conc EXCEPT !.g[g] = [@ EXCEPT !.pc = "built", !.buf = me.val.id,
                                                  !.cap = me.val.cap, !.val = Nil]]
    /\ UNCHANGED <<pool, maxCap>>
    /\ UNCHANGED PoolFrame

\* defer bpool.Put(&bucket) (line 200)
PoolDefer(g) ==
    /\ caller(g).pc = "built"
    /\ pool' = deferredPut(pool, pooled(putValue(caller(g).cap), caller(g).buf))
    /\ conc' = [conc EXCEPT !.g[g].pc = "deferred"]
    /\ UNCHANGED maxCap
    /\ UNCHANGED PoolFrame

\* return q.quantizeSlice(p, bucket), then the deferred Put (line 201).
PoolReturn(g) ==
    /\ caller(g).pc = "deferred"
    /\ pool' = Append(pool, pooled(putValue(caller(g).cap), caller(g).buf))
    /\ conc' = [conc EXCEPT !.g[g] = [@ EXCEPT !.pc = "idle", !.buf = 0, !.cap = 0]]
    /\ UNCHANGED maxCap
    /\ UNCHANGED PoolFrame

PoolNext ==
    \E g \in Callers :
        \/ PoolCall(g)
        \/ PoolLock(g)
        \/ PoolUpdate(g)
        \/ PoolUnlock(g)
        \/ PoolGet(g)
        \/ PoolAlloc(g)
        \/ PoolDefer(g)
        \/ PoolReturn(g)

PoolSpec == PoolInit /\ [][PoolNext]_vars

\* ------------------------------------------------- EncodeGIF side by side
\* Two calls of EncodeGIF in one process, each at its emission loop with the
\* palette its own QuantizeMultiple returned: with 256 slots and fewer
\* colors than that, the distinct opaque colors of its frames in some order.
Sessions == 1..2

SessionColors == {Green, Cyan, Transparent}

SessionFrames ==
    UNION {[1..n -> [1..1 -> SessionColors]] : n \in 1..MaxSessionFrames}

Perms(S) ==
    {f \in [1..Cardinality(S) -> S] : \A j, k \in 1..Cardinality(S) : j # k => f[j] # f[k]}

SessionPalettes(m) == Perms({c \in Range(Flatten(m)) : c.A # 0})

\* The locals of EncodeGIF when the loop over the frames begins
\* (lines 1323-1332, 1470-1486).
StartSession(k, m, pal) ==
    LET rt == \E c \in Range(Flatten(m)) : c.A = 0
    IN  [kind |-> k, ms |-> m, rt |-> rt,
         p |-> IF rt THEN Append(pal, Transparent) ELSE pal,
         transId |-> IF rt /\ k = "EncodeGIF" THEN Len(pal) % 256 ELSE 0,
         animId |-> NoCache,
         pix |-> [f \in 1..Len(m) |-> <<>>],
         mi |-> 1, xi |-> 1, pc |-> "emit"]

SessionStarts ==
    UNION {{StartSession(k, m, pal) : k \in {"EncodeGIF", "EncodeGIFfps"},
                                      pal \in SessionPalettes(m)} :
             m \in SessionFrames}

\* sessionCache with one map for the whole process.
sessionCacheShared(ss, s) == ss[1].animId

\* animId of the call: a local of EncodeGIF made by make (lines 1332, 1486).
sessionCache(ss, s) == ss[s].animId

SessionInputs == {[kind |-> "sessions", ms |-> NoFrames, cap |-> GifPaletteCap, p |-> <<>>,
                   q |-> [Aggregation |-> Mode, ReserveTransparent |-> FALSE]]}

SessionInit ==
    /\ input \in SessionInputs
    /\ callNo = 1
    /\ prev = NoPrev
    /\ pool = <<>>
    /\ maxCap = 0
    /\ conc = NoConc /\ ctx = NoCtx
    /\ sess \in [Sessions -> SessionStarts]
    /\ pc = "sessions"
    /\ p = <<>> /\ q = input.q
    /\ mi = 1 /\ xi = 1 /\ index = 0 /\ i = 1
    /\ sparseBucket = <<>> /\ bucketCap = 0 /\ bucket = <<>>
    /\ numColors = 0 /\ buckets = <<>>
    /\ transId = 0 /\ animId = NoCache /\ pix = <<>>
    /\ out = NoOutput /\ searches = NoSearches

SessionFrame == <<input, callNo, prev, pool, maxCap, pc, p, q, mi, xi, index, i,
                  sparseBucket, bucketCap, bucket, numColors, buckets, transId,
                  animId, pix, out, searches, conc, ctx>>

\* One pixel of one frame of session s (lines 1350-1363, 1494-1506).
SessionEmit(s) ==
    /\ sess[s].pc = "emit"
    /\ sess[s].mi <= Len(sess[s].ms)
    /\ LET me == sess[s]
           c == me.ms[me.mi][me.xi]
           cid == cacheKey(c)
           cache == sessionCache(sess, s)
           hit == ~(me.rt /\ wide(c.A) = 0) /\ cid \in DOMAIN cache
           val == IF me.rt /\ wide(c.A) = 0 THEN transparentIndex(me.kind, me.transId)
                  ELSE IF hit THEN cache[cid]
                  ELSE paletteIndex(me.p, c) % 256
           stored == IF (me.rt /\ wide(c.A) = 0) \/ hit THEN me.animId
                     ELSE cacheStore(me.animId, cid, val)
       IN  sess' = [sess EXCEPT ![s] =
                      [me EXCEPT !.pix[me.mi] = Append(@, val),
                                 !.animId = stored,
                                 !.mi = nextFrame(me.mi, me.xi, Len(me.ms[me.mi])),
                                 !.xi = nextPixel(me.mi, me.xi, Len(me.ms[me.mi]))]]
    /\ UNCHANGED SessionFrame

\* The loop of session s is over (lines 1367-1372).
SessionEnd(s) ==
    /\ sess[s].pc = "emit"
    /\ sess[s].mi > Len(sess[s].ms)
    /\ sess' = [sess EXCEPT ![s].pc = "done"]
    /\ UNCHANGED SessionFrame

SessionNext == \E s \in Sessions : SessionEmit(s) \/ SessionEnd(s)

SessionSpec == SessionInit /\ [][SessionNext]_vars

\* ----------------------------------------------------------------- Context
\* A Context: the two paths as sequences of segments, the points, the mask
\* (nil, the first clip, or a clip drawn through the mask before it), the
\* color for the drawing settings, the image (blank or painted on), the stack and the
\* frames. op is the method that ran last.
CtxPoints == {1, 2}
CtxColors == {"transparent", "black"}

NewContext ==
    [strokePath |-> <<>>, fillPath |-> <<>>, start |-> 0, current |-> 0,
     hasCurrent |-> FALSE, mask |-> "nil", color |-> "transparent",
     im |-> FALSE, stack |-> <<>>, frames |-> <<>>, op |-> "NewContext"]

\* raster.Path.Start and raster.Path.Add1
Start(path, pt) == Append(path, <<"start", pt>>)
Add1(path, pt) == Append(path, <<"line", pt>>)

GetCurrentPoint(c) == IF c.hasCurrent THEN <<c.current, TRUE>> ELSE <<0, FALSE>>

MoveTo(c, pt) ==
    [c EXCEPT !.strokePath = Start(@, pt),
              !.fillPath = Start(IF c.hasCurrent THEN Add1(@, c.start) ELSE @, pt),
              !.start = pt, !.current = pt, !.hasCurrent = TRUE]

LineTo(c, pt) ==
    IF ~c.hasCurrent THEN MoveTo(c, pt)
    ELSE [c EXCEPT !.strokePath = Add1(@, pt), !.fillPath = Add1(@, pt), !.current = pt]

NewSubPath(c) ==
    [c EXCEPT !.fillPath = IF c.hasCurrent THEN Add1(@, c.start) ELSE @,
              !.hasCurrent = FALSE]

\* ClearPath leaving the current point set.
ClearPathKeepingPoint(c) == [c EXCEPT !.strokePath = <<>>, !.fillPath = <<>>]

ClearPath(c) == [c EXCEPT !.strokePath = <<>>, !.fillPath = <<>>, !.hasCurrent = FALSE]

\* stroke and fill rasterize a path read from the Context onto the painter's
\* target; fill closes a copy of the fill path first.
stroke(c) == [c EXCEPT !.im = @ \/ Len(c.strokePath) >= 2]

filled(c) == IF c.hasCurrent THEN Add1(c.fillPath, c.start) ELSE c.fillPath

fill(c) == [c EXCEPT !.im = @ \/ Len(filled(c)) >= 2]

StrokePreserve(c) == stroke(c)

Stroke(c) == ClearPath(StrokePreserve(c))

FillPreserve(c) == fill(c)

Fill(c) == ClearPath(FillPreserve(c))

ClipPreserve(c) == [c EXCEPT !.mask = IF @ = "nil" THEN "clip" ELSE "clip over mask"]

Clip(c) == ClearPath(ClipPreserve(c))

SetColor(c, col) == [c EXCEPT !.color = col]

\* x := *dc. Of the copy only the fields that Pop does not overwrite
\* afterwards are kept here.
snapshot(c) ==
    [color |-> c.color, im |-> c.im, stack |-> c.stack, frames |-> c.frames]

Push(c) == [c EXCEPT !.stack = Append(@, snapshot(c))]

\* *dc = *ctx, then the six fields of before are put back. dc.im is a
\* pointer: the image it points to is not rolled back.
Pop(c) ==
    LET x == c.stack[Len(c.stack)]
    IN  [c EXCEPT !.color = x.color, !.stack = x.stack, !.frames = x.frames]

AppendFrame(c) == [c EXCEPT !.frames = Append(@, c.im)]

ContextInputs == {[kind |-> "context", ms |-> NoFrames, cap |-> 0, p |-> <<>>,
                   q |-> [Aggregation |-> Mode, ReserveTransparent |-> FALSE]]}

ContextInit ==
    /\ input \in ContextInputs
    /\ callNo = 1
    /\ prev = NoPrev
    /\ pool = <<>>
    /\ maxCap = 0
    /\ conc = NoConc /\ sess = NoSess
    /\ ctx = NewContext
    /\ pc = "context"
    /\ p = <<>> /\ q = input.q
    /\ mi = 1 /\ xi = 1 /\ index = 0 /\ i = 1
    /\ sparseBucket = <<>> /\ bucketCap = 0 /\ bucket = <<>>
    /\ numColors = 0 /\ buckets = <<>>
    /\ transId = 0 /\ animId = NoCache /\ pix = <<>>
    /\ out = NoOutput /\ searches = NoSearches

ContextFrame == <<input, callNo, prev, pool, maxCap, pc, p, q, mi, xi, index, i,
                  sparseBucket, bucketCap, bucket, numColors, buckets, transId,
                  animId, pix, out, searches, conc, sess>>

\* The caller runs one method on the Context.
Call(name, c) ==
    /\ ctx.op # "panic"
    /\ ctx' = [c EXCEPT !.op = name]
    /\ UNCHANGED ContextFrame

PathHasRoom == Len(ctx.fillPath) < MaxPath

ContextNext ==
    \/ \E pt \in CtxPoints : PathHasRoom /\ Call("MoveTo", MoveTo(ctx, pt))
    \/ \E pt \in CtxPoints : PathHasRoom /\ Call("LineTo", LineTo(ctx, pt))
    \/ PathHasRoom /\ Call("NewSubPath", NewSubPath(ctx))
    \/ Call("ClearPath", ClearPath(ctx))
    \/ Call("StrokePreserve", StrokePreserve(ctx))
    \/ Call("Stroke", Stroke(ctx))
    \/ Call("FillPreserve", FillPreserve(ctx))
    \/ Call("Fill", Fill(ctx))
    \/ Call("ClipPreserve", ClipPreserve(ctx))
    \/ Call("Clip", Clip(ctx))
    \/ \E col \in CtxColors : Call("SetColor", SetColor(ctx, col))
    \/ Len(ctx.stack) < MaxStack /\ Call("Push", Push(ctx))
    \/ IF Len(ctx.stack) = 0
       THEN Call("panic", ctx)
       ELSE Call("Pop", Pop(ctx))
    \/ Len(ctx.frames) < MaxCtxFrames /\ Call("AppendFrame", AppendFrame(ctx))

ContextSpec == ContextInit /\ [][ContextNext]_vars

\* --------------------------------------------------- one quantizer, reused
\* Colors of *image.RGBA frames, and (Y, Cb, Cr, 255) as colorAt returns it
\* for *image.YCbCr frames.
QuantizerColors == {Transparent, Red, Green}
YCbCrSamples == {RGBA(0, 128, 128, 255), RGBA(0, 127, 128, 255)}

\* Weighting callbacks: weight 0 or 2 by position.
Weightings == [1..MaxArea -> {0, 2}]

FramesOf(colors) == UNION {[1..sh[1] -> [1..sh[2] -> colors]] : sh \in Shapes}

\* Frame lists of later calls: one frame of one color.
LaterFrames == {<<[k \in 1..a |-> c]>> : a \in 1..MaxArea, c \in {Red, Transparent}}

WeightedQuantizers ==
    [Aggregation : {Mode}, ReserveTransparent : BOOLEAN, Weighting : Weightings]

QuantizerInputs ==
    {[kind |-> "QuantizeMultiple", imageType |-> "RGBA", ms |-> m, cap |-> c,
      p |-> <<>>, q |-> q0] :
        m \in FramesOf(QuantizerColors), c \in 0..MaxCap, q0 \in WeightedQuantizers}
    \cup
    {[kind |-> "QuantizeMultiple", imageType |-> "YCbCr", ms |-> m, cap |-> c,
      p |-> <<>>, q |-> q0] :
        m \in FramesOf(YCbCrSamples), c \in 0..MaxCap, q0 \in WeightedQuantizers}

QuantizerInit ==
    /\ input \in QuantizerInputs
    /\ callNo = 1
    /\ prev = NoPrev
    /\ pool = <<>>
    /\ maxCap = 0
    /\ conc = NoConc /\ sess = NoSess /\ ctx = NoCtx
    /\ Entry(input)

\* callerQuantizer for a method with a value receiver.
callerQuantizerByValue(after, before) == before

\* The caller's quantizer once a call has returned: QuantizeMultiple has a
\* pointer receiver, so what the call wrote to *q is the caller's.
callerQuantizer(after, before) == after

\* The caller calls QuantizeMultiple again on the same quantizer, with a
\* fresh palette and other frames.
Requantize ==
    /\ pc = "done"
    /\ callNo < MaxCalls
    /\ callNo' = callNo + 1
    /\ \E m \in LaterFrames : input' = [input EXCEPT !.ms = m, !.imageType = "RGBA"]
    /\ pc' = "QuantizeMultiple"
    /\ p' = input.p
    /\ mi' = 1 /\ xi' = 1 /\ index' = 0 /\ i' = 0
    /\ sparseBucket' = <<>> /\ bucketCap' = 0 /\ bucket' = <<>>
    /\ numColors' = 0 /\ buckets' = <<>>
    /\ q' = callerQuantizer(q, input.q)
    /\ UNCHANGED <<ctx, sess, conc, out, searches, prev, pool, maxCap, transId, animId, pix>>

QuantizerNext ==
    \/ BuildBucketStart
    \/ ScanPixel
    \/ ProbeStep
    \/ Compact
    \/ QuantizeSlice
    \/ BucketizeStep
    \/ BucketizeDone
    \/ Palettize
    \/ Return
    \/ Requantize

QuantizerSpec == QuantizerInit /\ [][QuantizerNext]_vars

\* ------------------------------------------------------------- observations
AllPixels == Flatten(ms)
OpaqueCount(pixels) == Cardinality({k \in 1..Len(pixels) : pixels[k].A # 0})
HasTransparent(pixels) == \E k \in 1..Len(pixels) : pixels[k].A = 0
DistinctOpaque(pixels) == Cardinality({pixels[k] : k \in {j \in 1..Len(pixels) : pixels[j].A # 0}})

\* Pixels the scan has finished with when it stands at (mi, xi).
Scanned == SubSeq(AllPixels, 1, (mi - 1) * area + (xi - 1))

Terminal == {"done", "error", "panic"}

\* Does the probe sequence from (idx, ii) meet, within n probes, an empty slot
\* or the slot of color c?  (idx, ii) modulo sz has sz * sz values, so
\* n = sz * sz probes cover every slot the loop can ever visit.
RECURSIVE probeFinds(_, _, _, _, _, _)
probeFinds(table, idx, ii, sz, c, n) ==
    IF n = 0 THEN FALSE
    ELSE \/ probeHit(table, idx % sz, c)
         \/ probeFinds(table, (idx + 1 + ii) % sz, (ii + 1) % sz, sz, c, n - 1)

\* -------------------------------------------------------------------- C1
\* C1: the probe loop of buildBucketMultiple always reaches an empty slot or
\* the slot holding the identical color, so QuantizeMultiple terminates.
C1_ProbeLoopTerminates ==
    pc = "probe" => probeFinds(sparseBucket, index, i, size, ms[mi][xi], size * size)

\* -------------------------------------------------------------------- C2
\* C2: with weight 1 per pixel, the weights of the dense bucket returned by
\* buildBucketMultiple sum to the number of scanned pixels with non-zero alpha.
C2_DenseWeightIsOpaqueCount ==
    (kind # "quantizeSlice" /\ pc = "quantizeSlice")
        => TotalWeight(bucket) = OpaqueCount(AllPixels)

C2_Witness ==
    /\ kind # "quantizeSlice" /\ pc = "quantizeSlice"
    /\ Len(ms) >= 2
    /\ HasTransparent(AllPixels)
    /\ Len(bucket) >= 2
    /\ TotalWeight(bucket) > Len(bucket)

\* -------------------------------------------------------------------- C3
\* C3: starting from ReserveTransparent = FALSE, the flag is TRUE after
\* buildBucketMultiple iff some scanned pixel had alpha 0 (and at every point
\* of the scan iff one of the pixels scanned so far had); an alpha-0 pixel
\* never creates a histogram entry or adds weight to one.
C3_TransparentFlagAndExclusion ==
    /\ (kind # "quantizeSlice" /\ pc = "quantizeSlice" /\ ~input.q.ReserveTransparent)
        => (q.ReserveTransparent <=> HasTransparent(AllPixels))
    /\ (pc \in {"scan", "probe"} /\ ~input.q.ReserveTransparent)
        => (q.ReserveTransparent <=> HasTransparent(Scanned))
    /\ pc \in {"scan", "probe"}
        => /\ \A k \in 1..Len(sparseBucket) :
                sparseBucket[k].p # 0 => sparseBucket[k].c.A # 0
           /\ TotalWeight(sparseBucket) = OpaqueCount(Scanned)
    /\ (kind # "quantizeSlice" /\ pc = "quantizeSlice")
        => \A k \in 1..Len(bucket) : bucket[k].c.A # 0

C3_Witness ==
    /\ kind # "quantizeSlice" /\ pc = "quantizeSlice"
    /\ ~input.q.ReserveTransparent
    /\ q.ReserveTransparent
    /\ bucket # <<>>
    /\ Len(AllPixels) >= 3

\* -------------------------------------------------------------------- C4
\* C4: for K >= 1 the buckets of bucketize partition the input samples: each
\* sample is in exactly one bucket, so the total weight is the input's.
C4_BucketsPartitionInput ==
    (pc \in {"bucketize", "palettize", "palettized"} /\ numColors >= 1)
        => /\ Len(Flatten(buckets)) = Len(bucket)
           /\ Range(Flatten(buckets)) = Range(bucket)
           /\ TotalWeight(Flatten(buckets)) = TotalWeight(bucket)

C4_Witness ==
    /\ pc = "palettize"
    /\ Len(bucket) = 4
    /\ Len(buckets) >= 3
    /\ TotalWeight(bucket) > 4

\* -------------------------------------------------------------------- C5
\* C5: no bucket of the work queue is empty, after every iteration of the
\* split loop and in the result of bucketize.
C5_NoEmptyBucket ==
    pc \in {"bucketize", "palettize", "palettized"}
        => \A k \in 1..Len(buckets) : buckets[k] # <<>>

C5_Witness ==
    /\ pc = "bucketize"
    /\ Len(buckets) = 3
    /\ Len(buckets[1]) = 2
    /\ Len(buckets[3]) = 1
    /\ numColors >= 4

\* -------------------------------------------------------------------- C6
\* C6: for n >= 1 distinct colors and K >= 1, bucketize returns exactly
\* min(K, n) buckets.
C6_BucketCount ==
    (pc \in {"palettize", "palettized"} /\ numColors >= 1 /\ Len(bucket) >= 1)
        => Len(buckets) = Min2(numColors, Len(bucket))

C6_Witness ==
    /\ pc = "palettize"
    /\ numColors = 2
    /\ Len(bucket) = 4
    /\ Len(buckets) = 2

\* -------------------------------------------------------------------- C7
GifKinds == {"EncodeGIF", "EncodeGIFfps"}

\* Entries of the palette once the caller has added the transparent entry the
\* way EncodeGIF does.
WithTransparentEntry == Len(p) + (IF q.ReserveTransparent THEN 1 ELSE 0)

NoColorSlot ==
    \/ capP - Len(input.p) = 0
    \/ (capP - Len(input.p) = 1 /\ q.ReserveTransparent)

\* C8: when no slot is left for a color, QuantizeMultiple on non-empty images
\* does not fail (the allocation of bucketize is never reached with a
\* negative K, which is what pc = "panicking" records) and returns the
\* palette unchanged.
C8_NoRoomReturnsUnchanged ==
    (kind = "QuantizeMultiple" /\ Len(ms) >= 1 /\ NoColorSlot)
        => /\ pc # "panicking"
           /\ pc = "bucketize" => numColors >= 0
           /\ pc = "done" => p = input.p

\* -------------------------------------------------------------------- C9
\* C9: if some pixel of some frame has alpha 0, exactly one palette slot holds
\* the transparent color and every alpha-0 pixel is written with its index.
C9_TransparentPixelsUseTheSlot ==
    (kind \in GifKinds /\ pc \in {"emit", "done"} /\ HasTransparent(AllPixels))
        => \E t \in 1..Len(p) :
            /\ p[t] = Transparent
            /\ \A j \in 1..Len(p) : j # t => p[j] # Transparent
            /\ \A m \in 1..Len(pix) : \A x \in 1..Len(pix[m]) :
                    ms[m][x].A = 0 => pix[m][x] = t - 1

\* ------------------------------------------------------------------- C10
\* C10: a second run on identical inputs ends as the first did, with the same
\* palette in the same order and the same index for every pixel, whatever the
\* pool holds.
C10_SecondRunSameResult ==
    (callNo >= 2 /\ pc \in Terminal)
        => /\ pc = prev.pc
           /\ p = prev.p
           /\ pix = prev.pix

\* ------------------------------------------------------------------- C11
\* C11: a call whose getBucket draws the value an earlier call put back goes
\* on as a call that found the pool empty: it gets its zeroed buffer and
\* starts the scan.
C11_PooledValueIsHarmless ==
    [][(pc = "QuantizeMultiple" /\ Len(pool') < Len(pool)) => pc' = "scan"]_vars

\* ------------------------------------------------------------------- C12
\* C12: while a caller holds a buffer, from the return of getBucket to its
\* deferred Put, the buffer is not in the pool and no other caller holds it
\* or has drawn it.
holds(g) == caller(g).pc \in {"built", "deferred"} /\ caller(g).buf # 0

C12_HeldBufferIsExclusive ==
    pc = "concurrent" =>
        \A g \in Callers :
            holds(g) =>
                /\ \A k \in 1..Len(pool) : pool[k].id # caller(g).buf
                /\ \A h \in Callers \ {g} :
                     /\ caller(h).buf # caller(g).buf
                     /\ caller(h).val # Nil => caller(h).val.id # caller(g).buf

\* Two callers hold buffers at once while a third buffer lies in the pool.
C12_Witness ==
    /\ pc = "concurrent"
    /\ \E g, h \in Callers : g # h /\ holds(g) /\ holds(h)
    /\ \E k \in 1..Len(pool) : pool[k].id # 0

\* ------------------------------------------------------------------- C13
\* C13: QuantizeMultiple on an empty image list is no error: the bucket is
\* empty, the call neither panics nor scans, the palette stays as the caller
\* passed it and ReserveTransparent keeps its value.
C13_EmptyListIsNotAnError ==
    (kind = "QuantizeMultiple" /\ Len(ms) = 0) =>
        /\ pc \in {"QuantizeMultiple", "quantizeSlice", "palettize", "palettized", "done"}
        /\ bucket = <<>>
        /\ p = input.p
        /\ q = input.q

\* Such a call has returned, for a caller palette with entries and the flag set.
C13_Witness ==
    /\ kind = "QuantizeMultiple" /\ Len(ms) = 0
    /\ pc = "done"
    /\ input.p # <<>>
    /\ input.q.ReserveTransparent
    /\ capP - Len(p) >= 1

\* ------------------------------------------------------------------- C14
\* C14: SaveGIF and EncodeGIF on an empty frame list return
\* "no frames provided" and do nothing else: no file is created, nothing is
\* written, no palette is computed and the pool is not touched.
C14_NoFramesFailsFirst ==
    (kind \in AllGifKinds /\ Len(ms) = 0) =>
        /\ pc \in {"SaveGIF", "EncodeGIF", "error"}
        /\ pc = "error" => out.err = "no frames provided"
        /\ out.file = "none" /\ ~out.written
        /\ p = <<>> /\ numColors = 0
        /\ pool = <<>> /\ maxCap = 0

\* SaveGIF has returned the error, a second time in the same process.
C14_Witness ==
    kind \in SaveKinds /\ Len(ms) = 0 /\ pc = "error" /\ callNo = MaxCalls

\* ------------------------------------------------------------------- C15
\* C15: a frame list whose frames differ in bounds is turned down as invalid
\* input before any pixel is scanned, and the histogram builder samples no
\* position outside the frame it is reading.
C15_MismatchedBoundsRejected ==
    /\ mismatched(ms) => pc \in {"SaveGIF", "EncodeGIF", "QuantizeMultiple", "error"}
    /\ (pc = "scan" /\ mi <= Len(ms)) => xi <= Len(ms[mi])

\* ------------------------------------------------------------------- C16
\* C16: with Mode, palettize appends for every bucket, in bucket order, the
\* color of the sample of the highest weight, and of samples of equal highest
\* weight the one that comes first in the bucket.
heaviest(b) ==
    CHOOSE j \in 1..Len(b) :
        /\ \A l \in 1..Len(b) : b[l].p <= b[j].p
        /\ \A l \in 1..(j - 1) : b[l].p < b[j].p

C16_ModeTakesFirstHeaviest ==
    (pc = "palettized" /\ q.Aggregation = Mode) =>
        /\ Len(p) = Len(input.p) + Len(buckets)
        /\ SubSeq(p, 1, Len(input.p)) = input.p
        /\ \A k \in 1..Len(buckets) :
             p[Len(input.p) + k] = buckets[k][heaviest(buckets[k])].c

\* A bucket whose highest weight is shared by two samples, the first of them
\* not at the head of the bucket.
C16_Witness ==
    /\ pc = "palettized" /\ q.Aggregation = Mode
    /\ \E k \in 1..Len(buckets) :
         LET b == buckets[k]
         IN  /\ heaviest(b) > 1
             /\ \E l \in (heaviest(b) + 1)..Len(b) : b[l].p = b[heaviest(b)].p

\* ------------------------------------------------------------------- C17
\* C17: of a bucket holding A with weight 9 and B with weight 1, Mode makes
\* the entry A, and Mean makes an entry that in every channel is within 1 of
\* (9A + B) / 10 rounded to the nearest integer.
C17_NineToOne ==
    pc = "palettized" =>
        \A k \in 1..Len(buckets) : \A h, l \in 1..2 :
            (Len(buckets[k]) = 2 /\ buckets[k][h].p = 9 /\ buckets[k][l].p = 1) =>
                LET A == buckets[k][h].c
                    B == buckets[k][l].c
                    e == p[Len(input.p) + k]
                IN  IF q.Aggregation = Mode
                    THEN e = A
                    ELSE \A ch \in {"R", "G", "B"} :
                            \E r \in 0..255 :
                                /\ Abs(10 * r - (9 * Channel(A, ch) + Channel(B, ch))) <= 5
                                /\ Abs(Channel(e, ch) - r) <= 1

\* Mean has made of such a bucket, the light sample first, an entry that is
\* neither A nor B.
C17_Witness ==
    /\ pc = "palettized" /\ q.Aggregation = Mean
    /\ Len(buckets) = 1 /\ Len(buckets[1]) = 2
    /\ buckets[1][1].p = 1 /\ buckets[1][2].p = 9
    /\ p[Len(p)] \notin {buckets[1][1].c, buckets[1][2].c}

\* ------------------------------------------------------------------- C18
\* C18 as stated: a bucket of one color of any weight, quantized into an
\* empty palette of capacity 1 or more, gives the palette of that one color,
\* under Mode and under Mean.
C18_SingleColor ==
    (pc = "palettized" /\ Len(bucket) = 1 /\ input.p = <<>> /\ capP >= 1)
        => p = <<bucket[1].c>>

\* C18 amended: the same when the capacity also covers the slot kept back
\* for transparency, that is capacity 1 or more with ReserveTransparent
\* clear and 2 or more with it set.
C18_SingleColorIfRoom ==
    (/\ pc = "palettized" /\ Len(bucket) = 1 /\ input.p = <<>>
     /\ capP >= (IF q.ReserveTransparent THEN 2 ELSE 1))
        => p = <<bucket[1].c>>

\* Mean has made the palette of one color of weight above 1, with the flag set.
C18_Witness ==
    /\ pc = "palettized" /\ Len(bucket) = 1 /\ input.p = <<>>
    /\ q.Aggregation = Mean /\ q.ReserveTransparent /\ capP = 2
    /\ bucket[1].p > 1
    /\ p = <<bucket[1].c>>

\* ------------------------------------------------------------------- C19
\* C19: three 2x2 frames, all red, all green and all blue, encoded with the
\* palette of capacity 256 and Mode: the palette is red, green and blue in
\* some order and nothing else, no transparent slot is kept, and every pixel
\* of a frame has the palette index of that frame's color.
C19_ThreeSolidFrames ==
    (ms = SolidFrames /\ kind \in AllGifKinds /\ pc = "done") =>
        /\ Len(p) = 3
        /\ Range(p) = {Red, Green, Blue}
        /\ ~q.ReserveTransparent
        /\ \A f \in 1..3 :
             /\ Len(pix[f]) = 4
             /\ \A k \in 1..4 : p[pix[f][k] + 1] = SolidFrames[f][1]

C19_Witness ==
    /\ ms = SolidFrames /\ kind = "EncodeGIF" /\ pc = "done"
    /\ capP = GifPaletteCap /\ q.Aggregation = Mode
    /\ out.written

\* ------------------------------------------------------------------- C20
\* C20: in one EncodeGIF session every cache key is searched in the palette
\* at most once, so there are no more searches than distinct keys among the
\* pixels; a key once cached keeps the index its search gave.
C20_OneSearchPerKey ==
    kind \in AllGifKinds =>
        /\ \A cid \in DOMAIN searches : searches[cid].n = 1
        /\ DOMAIN animId = DOMAIN searches
        /\ \A cid \in DOMAIN animId : animId[cid] = searches[cid].val
        /\ Cardinality(DOMAIN searches)
             <= Cardinality({cacheKey(c) : c \in UNION {Range(ms[f]) : f \in 1..Len(ms)}})

\* A session has ended in which two frames showed the same opaque color.
C20_Witness ==
    /\ kind \in AllGifKinds /\ pc = "done"
    /\ Len(ms) >= 2
    /\ ms[1][1] = ms[2][1] /\ ms[1][1].A # 0
    /\ cacheKey(ms[1][1]) \in DOMAIN searches
    /\ searches[cacheKey(ms[1][1])].n = 1

\* ------------------------------------------------------------------- C21
\* C21: every index a session has written is the index the session writes
\* when it runs alone: the transparent index for an alpha-0 pixel when the
\* slot is kept, else the palette index, in the session's own palette, of
\* the first pixel of the session's own frames with the same cache key.
firstWithKey(me, cid) ==
    LET fl == Flatten(me.ms)
        onPath(j) == ~(me.rt /\ fl[j].A = 0) /\ cacheKey(fl[j]) = cid
    IN  fl[CHOOSE j \in 1..Len(fl) : onPath(j) /\ \A l \in 1..(j - 1) : ~onPath(l)]

aloneIndex(me, c) ==
    IF me.rt /\ c.A = 0 THEN transparentIndex(me.kind, me.transId)
    ELSE paletteIndex(me.p, firstWithKey(me, cacheKey(c))) % 256

C21_CacheIsPrivate ==
    pc = "sessions" =>
        \A s \in Sessions :
            \A f \in 1..Len(sess[s].pix) : \A k \in 1..Len(sess[s].pix[f]) :
                sess[s].pix[f][k] = aloneIndex(sess[s], sess[s].ms[f][k])

\* Both sessions are half way, each holding an entry for the same key, with
\* different indices.
C21_Witness ==
    /\ pc = "sessions"
    /\ \A s \in Sessions : sess[s].pc = "emit" /\ sess[s].mi = 2 /\ Len(sess[s].ms) = 2
    /\ \E cid \in DOMAIN sess[1].animId \cap DOMAIN sess[2].animId :
         sess[1].animId[cid] # sess[2].animId[cid]

\* ------------------------------------------------------------------- C22
\* C22: the index written for an opaque pixel is the index the palette
\* search gives for that pixel's own color, also when another color of the
\* same cache key was resolved before it.
C22_IndexIsOwnSearch ==
    (kind \in AllGifKinds /\ pc \in {"emit", "close", "done"}) =>
        \A f \in 1..Len(pix) : \A k \in 1..Len(pix[f]) :
            ms[f][k].A # 0 => pix[f][k] = paletteIndex(p, ms[f][k]) % 256

\* ------------------------------------------------------------------- C23
\* C23: Stroke, Fill and Clip leave both paths empty and no current point;
\* StrokePreserve, FillPreserve and ClipPreserve leave the stroke path, the
\* fill path, the start point, the current point and hasCurrent as they were.
C23_ClearingAndPreserving ==
    [][/\ ctx'.op \in {"Stroke", "Fill", "Clip"} =>
            /\ ctx'.strokePath = <<>> /\ ctx'.fillPath = <<>>
            /\ GetCurrentPoint(ctx')[2] = FALSE
       /\ ctx'.op \in {"StrokePreserve", "FillPreserve", "ClipPreserve"} =>
            /\ ctx'.strokePath = ctx.strokePath /\ ctx'.fillPath = ctx.fillPath
            /\ ctx'.start = ctx.start /\ ctx'.current = ctx.current
            /\ ctx'.hasCurrent = ctx.hasCurrent]_vars

\* Fill has run on a painted path with a current point.
C23_Witness ==
    /\ pc = "context" /\ ctx.op = "Fill"
    /\ ctx.im /\ ctx.current # 0 /\ ~ctx.hasCurrent /\ ctx.fillPath = <<>>

\* ------------------------------------------------------------------- C24
\* C24: the split loop of bucketize ends. While it goes on some bucket of the
\* queue has two samples or more, and every iteration lowers a measure that
\* is never negative: the buckets still to be made, and within them the
\* singletons in front of the first bucket that can be split. When it stops
\* the queue holds K buckets or only singletons.
leadingSingletons(bs) ==
    CHOOSE n \in 0..Len(bs) :
        /\ \A k \in 1..n : Len(bs[k]) < 2
        /\ n = Len(bs) \/ Len(bs[n + 1]) >= 2

loopMeasure(bs, colors) ==
    (Len(colors) - Len(bs)) * (Len(colors) + 1) + leadingSingletons(bs)

C24_SplitLoopTerminates ==
    /\ [](pc = "bucketize" =>
            IF bucketizeMore(buckets, bucket, numColors)
            THEN \E k \in 1..Len(buckets) : Len(buckets[k]) >= 2
            ELSE \/ Len(buckets) = numColors
                 \/ \A k \in 1..Len(buckets) : Len(buckets[k]) = 1)
    /\ [][(pc = "bucketize" /\ pc' = "bucketize") =>
            /\ loopMeasure(buckets', bucket) < loopMeasure(buckets, bucket)
            /\ loopMeasure(buckets', bucket) >= 0]_vars

\* The loop goes on with a singleton at the head of the queue.
C24_Witness ==
    /\ pc = "bucketize"
    /\ bucketizeMore(buckets, bucket, numColors)
    /\ leadingSingletons(buckets) >= 1
    /\ Len(buckets) >= 3

\* ------------------------------------------------------------------- C25
\* C25: every call of getBucket(c) returns: the caller goes on to the scan
\* with a buffer of length c and capacity c or more whose slots are all
\* empty, whatever Pool.Get gave.
C25_GetBucketReturnsZeroed ==
    [][(pc = "QuantizeMultiple" /\ Len(ms) >= 1) =>
          /\ pc' = "scan"
          /\ Len(sparseBucket') = size
          /\ bucketCap' >= size
          /\ \A k \in 1..size : sparseBucket'[k] = EmptySlot]_vars

\* ------------------------------------------------------------------- C26
\* C26: maxCap is written only by the caller that holds the mutex, to the old
\* value decayed by 99/100 (rounded down) when it exceeded c and then raised
\* to c when below it; one caller at most is between Lock and Unlock; the
\* estimate a call took is c or more; and a call that draws from the pool no
\* longer holds the mutex.
C26_EstimateUnderMutex ==
    /\ [](pc = "concurrent" =>
            /\ \A g \in Callers :
                 /\ caller(g).pc \in {"locked", "Unlock"} <=> conc.m = g
                 /\ caller(g).pc \in {"Unlock", "Get", "got"} => caller(g).mc >= caller(g).c
            /\ \A g \in Callers :
                 (caller(g).pc = "built" /\ caller(g).buf # 0) => caller(g).cap >= caller(g).c)
    /\ [][(pc = "concurrent" /\ maxCap' # maxCap) =>
            \E g \in Callers :
                /\ conc.m = g /\ caller(g).pc = "locked"
                /\ LET c == caller(g).c
                       d == IF maxCap > c THEN (maxCap * 99) \div 100 ELSE maxCap
                   IN  /\ maxCap' = Max2(d, c)
                       /\ caller(g).mc' = maxCap']_vars

\* A caller draws from the pool with a decayed estimate above its c while
\* another caller holds the mutex.
C26_Witness ==
    /\ pc = "concurrent"
    /\ \E g, h \in Callers :
         /\ g # h
         /\ caller(g).pc = "Get" /\ caller(g).mc > caller(g).c
         /\ conc.m = h

\* ------------------------------------------------------------------- C27
\* Number of pixels of color c in a sequence of pixels.
Occurrences(pixels, c) == Cardinality({k \in 1..Len(pixels) : pixels[k] = c})

\* Slots of the table that hold color c with a weight.
SlotsOf(table, c) == {k \in 1..Len(table) : table[k].p # 0 /\ table[k].c = c}

\* C27: the probe of a pixel stands, after n collisions, on the slot
\* (R<<16 | G<<8 | B) + 2 + 3 + ... + (n + 1) modulo size; and throughout the
\* scan every opaque color scanned so far has exactly one slot, whose weight
\* is the number of its occurrences, and every weighted slot holds a scanned
\* color (weight 1 per pixel).
C27_ProbeSequenceAndOneSlotPerColor ==
    /\ pc = "probe" =>
         LET c == ms[mi][xi]
             home == c.R * 65536 + c.G * 256 + c.B
         IN  \E n \in 0..(size * size) :
                /\ index = (home + (n * (n + 3)) \div 2) % size
                /\ i = (n + 1) % size
    /\ pc \in {"scan", "probe"} =>
         /\ \A k \in 1..Len(Scanned) :
              Scanned[k].A # 0 =>
                \E s \in SlotsOf(sparseBucket, Scanned[k]) :
                    /\ SlotsOf(sparseBucket, Scanned[k]) = {s}
                    /\ sparseBucket[s].p = Occurrences(Scanned, Scanned[k])
         /\ \A s \in 1..Len(sparseBucket) :
              sparseBucket[s].p # 0 => Occurrences(Scanned, sparseBucket[s].c) >= 1

\* Mid-scan, a color sits away from its home slot after a collision and
\* another color has been seen twice.
C27_Witness ==
    /\ pc = "probe"
    /\ index # hashIndex(ms[mi][xi]) % size
    /\ \E s, t \in 1..Len(sparseBucket) :
         /\ s # t
         /\ sparseBucket[s].p >= 2
         /\ sparseBucket[t].p # 0
         /\ hashIndex(sparseBucket[t].c) % size # t - 1

\* ------------------------------------------------------------------- C28
\* Weight the pixels scanned so far give color c.
RECURSIVE ScannedWeight(_, _)
ScannedWeight(n, c) ==
    IF n = 0 THEN 0
    ELSE ScannedWeight(n - 1, c)
         + (IF Scanned[n] = c THEN priorityAt(0, ((n - 1) % area) + 1) ELSE 0)

\* Does every append of the compaction write a slot the loop has read?
RECURSIVE appendsBehindReads(_, _, _)
appendsBehindReads(table, k, n) ==
    IF k > Len(table) THEN TRUE
    ELSE IF table[k].p # 0
    THEN n + 1 <= k /\ appendsBehindReads(table, k + 1, n + 1)
    ELSE appendsBehindReads(table, k + 1, n)

\* C28: the dense bucket buildBucketMultiple returns is the sequence of the
\* non-empty slots of the sparse table in slot order, built in place without
\* writing a slot before it is read; it has no entry of weight 0 and no two
\* entries of the same RGBA color; and during the scan a slot's weight is the
\* sum of the weights of its color's pixels, so that a pixel of weight 0
\* creates no entry.
C28_DenseBucketIsCompactedTable ==
    /\ [](pc \in {"scan", "probe"} =>
            \A s \in 1..Len(sparseBucket) :
                sparseBucket[s].p # 0 =>
                    sparseBucket[s].p = ScannedWeight(Len(Scanned), sparseBucket[s].c))
    /\ [][(pc = "scan" /\ pc' = "quantizeSlice") =>
            LET full == {s \in 1..Len(sparseBucket) : sparseBucket[s].p # 0}
            IN  /\ Len(bucket') = Cardinality(full)
                /\ \A k \in 1..Len(bucket') :
                     \E s \in full :
                        /\ Cardinality({t \in full : t < s}) = k - 1
                        /\ bucket'[k].p = sparseBucket[s].p
                        /\ bucket'[k].c = (IF isYCbCr THEN YCbCrToRGB(sparseBucket[s].c)
                                           ELSE sparseBucket[s].c)
                /\ appendsBehindReads(sparseBucket, 1, 0)
                /\ \A k \in 1..Len(bucket') : bucket'[k].p # 0
                /\ \A j, k \in 1..Len(bucket') :
                     j # k => bucket'[j].c # bucket'[k].c]_vars

\* ------------------------------------------------------------------- C29
\* C29: ReserveTransparent of a quantizer never goes from TRUE to FALSE,
\* within a call or from one QuantizeMultiple call to the next on the same
\* quantizer; an alpha-0 pixel sets it; and whenever it is set, quantizeSlice
\* computes K as the remaining capacity of the palette minus one.
C29_ReserveTransparentIsMonotone ==
    /\ [][q.ReserveTransparent => q'.ReserveTransparent]_vars
    /\ [][(pc = "scan" /\ mi <= Len(ms) /\ ms[mi][xi].A = 0 /\ <<mi, xi>>' # <<mi, xi>>)
            => q'.ReserveTransparent]_vars
    /\ [][(pc = "quantizeSlice" /\ pc' # pc /\ q.ReserveTransparent)
            => numColors' = (capP - Len(p)) - 1]_vars

\* A second call on fully opaque frames, on a quantizer the caller built
\* without the flag and whose first call met an alpha-0 pixel, has computed K
\* as capacity minus one.
C29_Witness ==
    /\ callNo = 2
    /\ ~input.q.ReserveTransparent
    /\ \A k \in 1..Len(AllPixels) : AllPixels[k].A # 0
    /\ pc = "palettize"
    /\ capP = MaxCap
    /\ numColors = capP - 1

\* ------------------------------------------------------------------- C30
\* C30: Pop puts back the settings and the stack depth saved by the Push it
\* answers, keeps the mask, the paths and the points as they were just before
\* it, and loses no frame: every frame that Frames() returned before the Pop
\* is returned after it.
C30_PopRestoresAndKeepsFrames ==
    [][(ctx'.op = "Pop" /\ Len(ctx.stack) > 0) =>
          LET x == ctx.stack[Len(ctx.stack)]
          IN  /\ ctx'.color = x.color
              /\ Len(ctx'.stack) = Len(ctx.stack) - 1
              /\ ctx'.mask = ctx.mask
              /\ ctx'.strokePath = ctx.strokePath /\ ctx'.fillPath = ctx.fillPath
              /\ ctx'.start = ctx.start /\ ctx'.current = ctx.current
              /\ ctx'.hasCurrent = ctx.hasCurrent
              /\ Len(ctx'.frames) >= Len(ctx.frames)
              /\ SubSeq(ctx'.frames, 1, Len(ctx.frames)) = ctx.frames]_vars

====
